---- MODULE Spec2Model ----
(***************************************************************************)
(* The detection loop of phone_detect_play.py: the debounce accumulator,   *)
(* the stable flag, the cooldown gate and the action that opens the video. *)
(* One Tick is one full iteration of the loop of main() (lines 77-133).    *)
(* Timestamps (time.time()) and the cooldown are modelled as integers.     *)
(***************************************************************************)
EXTENDS Integers, Sequences, FiniteSets, TLC

\* ------------------------------------------------------------------ bounds
MaxFrames == 4
MaxCooldown == 1
MaxTime == 2
MaxHits == 5

\* --frames and --cooldown as argparse accepts them (type=int / type=float,
\* no range check): zero and negative values included.
FramesValues == -1 .. MaxFrames
CooldownValues == -1 .. MaxCooldown
\* The values time.time() can return on a tick (wall clock, not monotonic).
Timestamps == 0 .. MaxTime

VARIABLES
    args_frames,               \* args.frames
    args_cooldown,             \* args.cooldown
    args_show,                 \* args.show
    consecutive_hits,          \* the accumulator (hit_score)
    detected_stable,           \* the stable flag (is_stable)
    last_trigger_time,         \* time of the last trigger, 0 at start
    phone_present_this_frame,  \* the tick's input
    now,                       \* the tick's timestamp
    pc,                        \* "run" | "stopped" | "crashed"
    released,                  \* cap.release() has run
    \* ---- observers (history of the run, not state of the program)
    fired,                     \* the last tick invoked the action
    actionOutcome,             \* outcome of the action on the last tick
    triggers,                  \* ticks that invoked the action so far, counted up to 2
    phase,                     \* progress of the episode since the last trigger
    prefix,                    \* ticks so far, while they follow Scenario4
    presentRun,                \* consecutive present ticks ending now
    absentRun                  \* consecutive absent ticks ending now, all after the last trigger

progVars == <<args_frames, args_cooldown, args_show, consecutive_hits,
              detected_stable, last_trigger_time, phone_present_this_frame,
              now, pc, released>>
obsVars == <<fired, actionOutcome, triggers, phase, prefix,
             presentRun, absentRun>>
vars == <<progVars, obsVars>>

Max(a, b) == IF a >= b THEN a ELSE b
Min(a, b) == IF a <= b THEN a ELSE b

\* ------------------------------------------------------- open_link_on_mac
\* What can happen inside open_link_on_mac (lines 16-25):
\*   open_ok         subprocess.run returned, exit status 0
\*   open_nonzero    subprocess.run returned a non-zero status (check=False)
\*   fallback_ok     subprocess.run raised, webbrowser.open returned True
\*   fallback_false  subprocess.run raised, webbrowser.open returned False
\*   fallback_raised subprocess.run raised and webbrowser.open raised too
ActionOutcomes ==
    {"open_ok", "open_nonzero", "fallback_ok", "fallback_false", "fallback_raised"}

\* The except clause catches what subprocess.run raises; what the handler
\* itself raises is not caught and leaves open_link_on_mac.
open_link_on_mac(outcome) == outcome = "fallback_raised"

\* ------------------------------------------------------------ the debounce
\* lines 111-114
Accumulate(hits, present) ==
    IF present THEN hits + 1 ELSE Max(0, hits - 1)

\* line 117 without its first conjunct: the stable flag is not consulted.
became_stable_IgnoringStable(stable, hits, frames) ==
    hits >= frames

\* line 117
became_stable(stable, hits, frames) ==
    (~stable) /\ (hits >= frames)

\* line 118 without the cooldown comparison.
CooldownElapsed_Always(t, last, cooldown) ==
    TRUE

\* line 118 with a strict comparison.
CooldownElapsed_Strict(t, last, cooldown) ==
    (t - last) > cooldown

\* line 118 comparing the distance between the two times, whatever their order.
CooldownElapsed_Abs(t, last, cooldown) ==
    (IF t >= last THEN t - last ELSE last - t) >= cooldown

\* line 118, second conjunct
CooldownElapsed(t, last, cooldown) ==
    (t - last) >= cooldown

\* line 125 testing the accumulator against args.frames instead of 0.
ResetStable_BelowThreshold(stable, hits) ==
    IF stable /\ hits < args_frames THEN FALSE ELSE stable

\* lines 125-126 left out: the stable flag is never cleared.
ResetStable_Never(stable, hits) ==
    stable

\* lines 125-126
ResetStable(stable, hits) ==
    IF stable /\ hits = 0 THEN FALSE ELSE stable

ValidConfig == args_frames >= 1 /\ args_cooldown >= 0

\* ---------------------------------------------------------------- observers
Scenario4 == <<TRUE, TRUE, FALSE, TRUE, TRUE, TRUE>>
Scenario4Hits == <<1, 2, 1, 2, 3, 4>>

NextPrefix(present) ==
    IF prefix >= 0 /\ prefix < Len(Scenario4) /\ Scenario4[prefix + 1] = present
    THEN prefix + 1
    ELSE -1

\* The episode since the last trigger:
\*   "none"      no trigger yet
\*   "fired"     a trigger, and every tick since had the phone present
\*   "draining"  a trigger, then some absent tick, the accumulator not yet at 0
\*   "zeroed"    since the trigger a tick ended with the accumulator at 0 and
\*               the stable flag false
\*   "climbed"   after that, a tick ended with the accumulator at args.frames
NextPhase(trig, present, hits, stable) ==
    IF trig THEN "fired"
    ELSE IF phase \in {"fired", "draining"} /\ hits = 0 /\ ~stable THEN "zeroed"
    ELSE IF phase = "fired" /\ ~present THEN "draining"
    ELSE IF phase = "zeroed" /\ hits = args_frames THEN "climbed"
    ELSE phase

\* -------------------------------------------------------------------- Init
\* The state at line 74, the camera opened.
Init ==
    /\ args_frames \in FramesValues
    /\ args_cooldown \in CooldownValues
    /\ args_show \in BOOLEAN
    /\ consecutive_hits = 0
    /\ detected_stable = FALSE
    /\ last_trigger_time = 0
    /\ phone_present_this_frame = FALSE
    /\ now = 0
    /\ pc = "run"
    /\ released = FALSE
    /\ fired = FALSE
    /\ actionOutcome = "none"
    /\ triggers = 0
    /\ phase = "none"
    /\ prefix = 0
    /\ presentRun = 0
    /\ absentRun = 0

\* ------------------------------------------------------------------ actions
\* One iteration of the loop with a frame read and inference done
\* (lines 78-133): present is the tick's detection result, t what time.time()
\* returns, outcome what happens in the action ("none" when it is not
\* invoked), quit whether 'q' is pressed in the preview window (--show only).
Tick(present, t, outcome, quit) ==
    /\ pc = "run"
    /\ present => consecutive_hits < MaxHits
    /\ quit => args_show
    /\ LET hits == Accumulate(consecutive_hits, present)
           trig == /\ became_stable(detected_stable, hits, args_frames)
                   /\ CooldownElapsed(t, last_trigger_time, args_cooldown)
           raised == trig /\ open_link_on_mac(outcome)
           stable1 == IF trig /\ ~raised THEN TRUE ELSE detected_stable
           stable2 == IF raised THEN stable1 ELSE ResetStable(stable1, hits)
       IN  /\ (outcome = "none") <=> ~trig
           /\ phone_present_this_frame' = present
           /\ consecutive_hits' = hits
           /\ now' = t
           /\ last_trigger_time' = IF trig /\ ~raised THEN t ELSE last_trigger_time
           /\ detected_stable' = stable2
           /\ pc' = IF raised THEN "crashed"
                    ELSE IF args_show /\ quit THEN "stopped"
                    ELSE "run"
           /\ released' = (raised \/ (args_show /\ quit))
           /\ fired' = trig
           /\ actionOutcome' = outcome
           /\ triggers' = IF trig THEN Min(triggers + 1, 2) ELSE triggers
           /\ phase' = NextPhase(trig, present, hits, stable2)
           /\ prefix' = NextPrefix(present)
           /\ presentRun' = IF present THEN Min(presentRun + 1, MaxFrames + 1) ELSE 0
           /\ absentRun' = IF present \/ trig THEN 0 ELSE Min(absentRun + 1, MaxFrames + 1)
    /\ UNCHANGED <<args_frames, args_cooldown, args_show>>

\* The break of line 81 without the finally block: the camera stays open.
ReadFail_NoRelease ==
    /\ pc = "run"
    /\ pc' = "stopped"
    /\ UNCHANGED <<args_frames, args_cooldown, args_show, consecutive_hits,
                   detected_stable, last_trigger_time, phone_present_this_frame,
                   now, released, obsVars>>

\* cap.read() fails (lines 78-81): the loop ends, the finally block runs.
ReadFail ==
    /\ pc = "run"
    /\ pc' = "stopped"
    /\ released' = TRUE
    /\ UNCHANGED <<args_frames, args_cooldown, args_show, consecutive_hits,
                   detected_stable, last_trigger_time, phone_present_this_frame,
                   now, obsVars>>

\* model(frame, ...) or the parsing of its boxes raises (lines 84-108): the
\* exception leaves the loop through the finally block.
InferenceRaise ==
    /\ pc = "run"
    /\ pc' = "crashed"
    /\ released' = TRUE
    /\ UNCHANGED <<args_frames, args_cooldown, args_show, consecutive_hits,
                   detected_stable, last_trigger_time, phone_present_this_frame,
                   now, obsVars>>

TickStep ==
    \E present \in BOOLEAN, t \in Timestamps,
       outcome \in ActionOutcomes \cup {"none"}, quit \in BOOLEAN : Tick(present, t, outcome, quit)

Next ==
    \/ TickStep
    \/ ReadFail
    \/ InferenceRaise

Spec == Init /\ [][Next]_vars

TypeOK ==
    /\ args_frames \in FramesValues
    /\ args_cooldown \in CooldownValues
    /\ consecutive_hits \in 0 .. MaxHits
    /\ last_trigger_time \in Timestamps
    /\ pc \in {"run", "stopped", "crashed"}
\* ------------------------------------------------------------------ claims
\* The step is a tick: an iteration of the loop that ran to its end, with the
\* inputs the new state records.
Ticked ==
    \E quit \in BOOLEAN :
        Tick(phone_present_this_frame', now', actionOutcome', quit)

\* The step is a tick that invoked the action (emitted a trigger).
Trigger == Ticked /\ fired'

\* C1: with args.frames >= 1 the accumulator stays within [0, args.frames]
\* after every tick (saturation law).
C1_Saturation ==
    (args_frames >= 1) =>
        (0 <= consecutive_hits /\ consecutive_hits <= args_frames)

\* C2: between two ticks that emit a trigger there is a tick that ends with
\* the accumulator at exactly 0 and the stable flag false, followed by a climb
\* of the accumulator to args.frames; and while the phone stays present on
\* every tick after a trigger, no further trigger is emitted.
C2_OneTriggerPerEpisode ==
    [][ /\ (ValidConfig /\ Trigger /\ triggers >= 1) =>
             \/ phase = "climbed"
             \/ phase = "zeroed" /\ consecutive_hits' = args_frames
        /\ (ValidConfig /\ Ticked /\ phase = "fired"
              /\ phone_present_this_frame') => ~fired'
      ]_vars

\* A second trigger has been emitted, after a full drop and a new climb.
C2_Witness ==
    ValidConfig /\ fired /\ triggers = 2 /\ pc = "run" /\ phase = "fired"

\* C3: with args.cooldown >= 0 a trigger is emitted on a tick only if the
\* stable flag was false before the tick, the accumulator is at least
\* args.frames after the tick's update, and either no trigger occurred before
\* or the tick's timestamp is at least args.cooldown after the previous
\* trigger's.
C3_CooldownGate ==
    [][ (args_cooldown >= 0 /\ Trigger) =>
            /\ ~detected_stable
            /\ consecutive_hits' >= args_frames
            /\ \/ triggers = 0
               \/ (now' - last_trigger_time) >= args_cooldown
      ]_vars

\* A second trigger under a positive cooldown.
C3_Witness ==
    /\ args_frames >= 1 /\ args_cooldown >= 1
    /\ fired /\ triggers = 2 /\ pc = "run"
    /\ last_trigger_time = now

\* The accumulator is at or above args.frames, the stable flag is false and a
\* trigger has occurred before: the fire is pending on the cooldown.
PendingFire ==
    /\ triggers >= 1
    /\ ~detected_stable
    /\ consecutive_hits >= args_frames

\* C4: a tick on which the accumulator is at least args.frames with the stable
\* flag false, while the cooldown since the previous trigger has not elapsed,
\* emits no trigger and leaves the stable flag false; while the phone then
\* stays present, a tick emits the trigger exactly when its timestamp is at
\* least args.cooldown after the previous trigger, the fire stays pending
\* until then, and once it fired no further trigger follows while the phone
\* stays present.
C4_PendingFire ==
    [][ /\ ( /\ ValidConfig /\ Ticked /\ triggers >= 1
             /\ ~detected_stable
             /\ consecutive_hits' >= args_frames
             /\ (now' - last_trigger_time) < args_cooldown )
           => (~fired' /\ ~detected_stable' /\ PendingFire')
        /\ ( /\ ValidConfig /\ Ticked /\ PendingFire
             /\ phone_present_this_frame' )
           => /\ fired' <=> ((now' - last_trigger_time) >= args_cooldown)
              /\ fired' => (phase' = "fired" /\ triggers' = 2)
        /\ ( /\ ValidConfig /\ Ticked /\ phase = "fired"
             /\ phone_present_this_frame' )
           => (~fired' /\ phase' = "fired")
      ]_vars

\* A trigger emitted from the pending state: the second trigger fires on a
\* tick that finds the accumulator already above args.frames.
C4_Witness ==
    /\ ValidConfig /\ pc = "run"
    /\ fired /\ triggers = 2
    /\ phone_present_this_frame
    /\ consecutive_hits > args_frames

\* C5: as long as no trigger has been emitted, the first tick that brings the
\* accumulator to args.frames emits one, whatever args.cooldown >= 0 and the
\* tick's timestamp are: no tick ends with the accumulator at args.frames or
\* above and no trigger emitted so far.
C5_FirstTriggerNotHeld ==
    (ValidConfig /\ triggers = 0) => consecutive_hits < args_frames

\* C6: with args.frames <= 0 or args.cooldown < 0 the engine is not created:
\* no trigger is ever emitted under such a configuration.
C6_InvalidConfigRejected ==
    (~ValidConfig) => (triggers = 0 /\ ~fired)

\* C7: after a trigger, args.frames consecutive absent ticks bring the
\* accumulator to 0 and the stable flag back to false.
C7_FullDrop ==
    (ValidConfig /\ pc = "run" /\ triggers >= 1 /\ absentRun >= args_frames) =>
        (consecutive_hits = 0 /\ ~detected_stable)

\* C8: whatever happens in the action, the tick that emits a trigger records
\* last_trigger_time = timestamp and sets the stable flag, and the loop goes
\* on (it does not end with an exception).
C8_ActionFailureTolerated ==
    [][ (ValidConfig /\ Trigger) =>
            /\ last_trigger_time' = now'
            /\ detected_stable'
            /\ pc' # "crashed"
      ]_vars

\* C9: an absent tick lowers the accumulator by exactly 1, floored at 0; and
\* from the initial state with args.frames = 4 the ticks T,T,F,T,T,T give the
\* accumulator values 1,2,1,2,3,4 and a trigger on the 6th tick and on no
\* earlier one.
C9_FlickerTolerance ==
    /\ [][ (Ticked /\ ~phone_present_this_frame') =>
              consecutive_hits' = Max(0, consecutive_hits - 1) ]_vars
    /\ []( (args_frames = 4 /\ args_cooldown >= 0 /\ prefix >= 1) =>
              /\ consecutive_hits = Scenario4Hits[prefix]
              /\ fired <=> (prefix = Len(Scenario4)) )

\* C10: a trigger is emitted on a tick only if the phone was present on that
\* tick and on each of the args.frames - 1 ticks right before it.
C10_ConsecutiveFrames ==
    (args_frames >= 1 /\ fired) => presentRun >= args_frames

\* C12: the stable flag changes from false to true only on a tick that emits
\* a trigger, the accumulator then being at least args.frames, and from true
\* to false only on a tick that ends with the accumulator at exactly 0; no
\* other step changes it.
C12_StableLifecycle ==
    [][ /\ (~detected_stable /\ detected_stable') =>
              (Trigger /\ consecutive_hits' >= args_frames)
        /\ (detected_stable /\ ~detected_stable') =>
              (Ticked /\ consecutive_hits' = 0)
      ]_vars

\* The stable flag was set by a trigger and cleared again by a drop to 0.
C12_Witness ==
    /\ ValidConfig /\ pc = "run"
    /\ phase = "zeroed" /\ triggers >= 1
    /\ ~detected_stable /\ consecutive_hits = 0

\* C13: with args.frames >= 1 no trigger is emitted on a tick whose frame has
\* no phone.
C13_NoTriggerOnAbsentTick ==
    (ValidConfig /\ fired) => phone_present_this_frame

\* C14: with args.cooldown >= 0 a tick whose timestamp is earlier than
\* last_trigger_time emits no trigger, while the accumulator update and the
\* reset of the stable flag at 0 run on it as on any tick.
C14_ClockRegression ==
    [][ (args_cooldown >= 0 /\ Ticked /\ now' < last_trigger_time) =>
            /\ ~fired'
            /\ last_trigger_time' = last_trigger_time
            /\ consecutive_hits' =
                  IF phone_present_this_frame'
                  THEN consecutive_hits + 1
                  ELSE Max(0, consecutive_hits - 1)
            /\ detected_stable' = (detected_stable /\ consecutive_hits' # 0)
      ]_vars

\* A tick earlier than the last trigger found the accumulator at args.frames
\* with the stable flag false and a cooldown of 0, and emitted nothing.
C14_Witness ==
    /\ args_frames >= 1 /\ args_cooldown = 0 /\ pc = "run"
    /\ triggers >= 1 /\ now < last_trigger_time
    /\ ~detected_stable /\ consecutive_hits >= args_frames
    /\ ~fired

\* C15: with args.frames >= 1, after every tick the stable flag implies an
\* accumulator of at least 1.
C15_StableImpliesHits ==
    (args_frames >= 1 /\ detected_stable) => consecutive_hits >= 1

\* The stable flag is still set with the accumulator drained to 1, below
\* args.frames.
C15_Witness ==
    /\ args_frames >= 2 /\ detected_stable /\ consecutive_hits = 1
    /\ ~phone_present_this_frame

\* C16: the camera is released on every way out of the loop (failed read,
\* quit key, exception of inference or of the action), nothing is processed
\* once the loop is left, and a failed read leaves it.
C16_CameraReleased ==
    /\ [](pc # "run" => released)
    /\ [][ /\ pc = "run"
           /\ ReadFail => (pc' = "stopped" /\ released')
         ]_vars

\* The loop was left by an exception of the action on a trigger tick, the
\* camera released.
C16_Witness ==
    /\ pc = "crashed" /\ fired /\ actionOutcome = "fallback_raised"
    /\ released
====
